---- MODULE Spec2Model ----
(***************************************************************************)
(* A model of src/src/lib.rs: the UserAgent record, the parsing adapter    *)
(* parse(), the derived identifiers fingerprint() / hash() /               *)
(* normalized_string(), and the lazily initialised process-wide parser     *)
(* (USER_AGENT_PARSER, init, get).                                         *)
(*                                                                         *)
(* A Rust String is a sequence of Unicode code points (<<87, 105, 110>> is *)
(* "Win"); its byte length is the sum of the UTF-8 widths of its code      *)
(* points.  Option<T> is a sequence of length 0 (None) or 1 (Some(x)).     *)
(* A BLAKE3 digest in hex is a term [blake3_hex |-> input]: the hash is    *)
(* taken to be collision free and is otherwise uninterpreted.              *)
(***************************************************************************)
EXTENDS Integers, Sequences, FiniteSets, TLC

VARIABLES
    ua,      \* the UserAgent record the caller holds
    out,     \* the value returned by the caller's last call on ua
    cell,    \* USER_AGENT_PARSER: its state and the instance it holds
    thr,     \* per thread: where it is in get() and what it obtained
    runs,    \* how many times init() has been entered
    aborted  \* the process has been aborted by a panic (panic = "abort")

vars == <<ua, out, cell, thr, runs, aborted>>

---------------------------------------------------------------------------
(* Option<T> *)

None == <<>>
Some(x) == <<x>>
IsSome(o) == Len(o) = 1
IsNone(o) == Len(o) = 0
Unwrap(o) == o[1]

---------------------------------------------------------------------------
(* String literals of the source, as code points *)

Tag_b == <<98, 58>>                     \* "b:"
Tag_bv == <<98, 118, 58>>               \* "bv:"
Tag_bvm == <<98, 118, 109, 58>>         \* "bvm:"
Tag_o == <<111, 58>>                    \* "o:"
Tag_ov == <<111, 118, 58>>              \* "ov:"
Tag_ovm == <<111, 118, 109, 58>>        \* "ovm:"
Tag_d == <<100, 58>>                    \* "d:"
Tag_db == <<100, 98, 58>>               \* "db:"
Tag_dm == <<100, 109, 58>>              \* "dm:"
Tag_c == <<99, 58>>                     \* "c:"
Tag_e == <<101, 58>>                    \* "e:"
Tag_ev == <<101, 118, 58>>              \* "ev:"
Tag_l == <<108, 58>>                    \* "l:"
Tag_s == <<115, 58>>                    \* "s:"
Tag_w == <<119, 58>>                    \* "w:"
Tag_fm1 == <<102, 109, 58, 49>>         \* "fm:1"
Tag_faw1 == <<102, 97, 119, 58, 49>>    \* "faw:1"
Tag_fg1 == <<102, 103, 58, 49>>         \* "fg:1"
Tag_fc1 == <<102, 99, 58, 49>>          \* "fc:1"
Tag_fs1 == <<102, 115, 58, 49>>         \* "fs:1"
Tag_ff1 == <<102, 102, 58, 49>>         \* "ff:1"
Tag_fe1 == <<102, 101, 58, 49>>         \* "fe:1"
Tag_fi1 == <<102, 105, 58, 49>>         \* "fi:1"
Tag_fow1 == <<102, 111, 119, 58, 49>>   \* "fow:1"
Tag_fom1 == <<102, 111, 109, 58, 49>>   \* "fom:1"
Tag_fol1 == <<102, 111, 108, 58, 49>>   \* "fol:1"
Tag_foa1 == <<102, 111, 97, 58, 49>>    \* "foa:1"
Tag_foi1 == <<102, 111, 105, 58, 49>>   \* "foi:1"
Tag_ip4 == <<105, 112, 52, 58>>         \* "ip4:"
Tag_ip6 == <<105, 112, 54, 58>>         \* "ip6:"
FeatureSeparator == <<38, 37, 38>>      \* "&%&"
Marker_Mobile == <<77, 111, 98, 105, 108, 101>>                            \* "Mobile"
Marker_AppleWebKit == <<65, 112, 112, 108, 101, 87, 101, 98, 75, 105, 116>> \* "AppleWebKit"
Marker_Gecko == <<71, 101, 99, 107, 111>>                                  \* "Gecko"
Marker_Chrome == <<67, 104, 114, 111, 109, 101>>                           \* "Chrome"
Marker_Safari == <<83, 97, 102, 97, 114, 105>>                             \* "Safari"
Marker_Firefox == <<70, 105, 114, 101, 102, 111, 120>>                     \* "Firefox"
Marker_Edge == <<69, 100, 103, 101>>                                       \* "Edge"
Marker_EdgSlash == <<69, 100, 103, 47>>                                    \* "Edg/"
Marker_MSIE == <<77, 83, 73, 69>>                                          \* "MSIE"
Marker_Trident == <<84, 114, 105, 100, 101, 110, 116>>                     \* "Trident"
Marker_Win == <<87, 105, 110>>                                             \* "Win"
Marker_Mac == <<77, 97, 99>>                                               \* "Mac"
Marker_Linux == <<76, 105, 110, 117, 120>>                                 \* "Linux"
Marker_Android == <<65, 110, 100, 114, 111, 105, 100>>                     \* "Android"
Marker_iOS == <<105, 79, 83>>                                              \* "iOS"
Marker_iPhone == <<105, 80, 104, 111, 110, 101>>                           \* "iPhone"
Marker_iPad == <<105, 80, 97, 100>>                                        \* "iPad"
Dot == 46                               \* '.'
Colon == 58                             \* ':'
Pipe == 124                             \* '|'

---------------------------------------------------------------------------
(* The string operations of the Rust standard library that the source uses *)

\* str::len(): the length in UTF-8 bytes
Utf8Width(c) == IF c < 128 THEN 1 ELSE IF c < 2048 THEN 2 ELSE IF c < 65536 THEN 3 ELSE 4

RECURSIVE ByteLen(_)
ByteLen(s) == IF s = <<>> THEN 0 ELSE Utf8Width(Head(s)) + ByteLen(Tail(s))

\* char::is_ascii_digit
IsAsciiDigit(c) == c \in 48..57

\* char::is_alphanumeric (Alphabetic or Numeric), exact below U+0100; the
\* code points above that the model draws from are symbols and spaces
IsAlphanumeric(c) ==
    \/ c \in 48..57
    \/ c \in 65..90
    \/ c \in 97..122
    \/ c \in {170, 178, 179, 181, 185, 186, 188, 189, 190}
    \/ c \in 192..214
    \/ c \in 216..246
    \/ c \in 248..255

\* char::is_whitespace (White_Space)
IsWhitespace(c) ==
    \/ c \in 9..13
    \/ c \in {32, 133, 160, 5760, 8232, 8233, 8239, 8287, 12288}
    \/ c \in 8192..8202

\* ua.chars().filter(|c| c.is_ascii_digit()).count()
RECURSIVE CountDigits(_)
CountDigits(s) ==
    IF s = <<>> THEN 0
    ELSE (IF IsAsciiDigit(Head(s)) THEN 1 ELSE 0) + CountDigits(Tail(s))

\* ua.chars().filter(|c| !c.is_alphanumeric()).count()
RECURSIVE CountSymbols(_)
CountSymbols(s) ==
    IF s = <<>> THEN 0
    ELSE (IF IsAlphanumeric(Head(s)) THEN 0 ELSE 1) + CountSymbols(Tail(s))

\* ua.split_whitespace().count(): the maximal runs of non-whitespace
WordCount(s) ==
    Cardinality({i \in 1..Len(s) :
        /\ ~IsWhitespace(s[i])
        /\ (i = 1 \/ IsWhitespace(s[i - 1]))})

\* str::contains(&str)
Contains(s, pat) ==
    \E i \in 1..(Len(s) - Len(pat) + 1) : SubSeq(s, i, i + Len(pat) - 1) = pat

\* str::contains(char)
ContainsChar(s, c) == \E i \in 1..Len(s) : s[i] = c

\* str::split(char).collect(): always at least one segment
RECURSIVE Split(_, _)
Split(s, c) ==
    IF ~ContainsChar(s, c) THEN <<s>>
    ELSE LET i == CHOOSE k \in 1..Len(s) : s[k] = c /\ \A j \in 1..(k - 1) : s[j] # c
         IN  <<SubSeq(s, 1, i - 1)>> \o Split(SubSeq(s, i + 1, Len(s)), c)

\* [String]::join(sep)
RECURSIVE Join(_, _)
Join(parts, sep) ==
    IF parts = <<>> THEN <<>>
    ELSE IF Len(parts) = 1 THEN parts[1]
    ELSE parts[1] \o sep \o Join(Tail(parts), sep)

\* format!("{}", n) of an unsigned count
RECURSIVE ToDecimal(_)
ToDecimal(n) ==
    IF n < 10 THEN <<48 + n>> ELSE ToDecimal(n \div 10) \o <<48 + (n % 10)>>

\* Ord for String: lexicographic on the bytes, which is the order of the
\* code points
RECURSIVE StrLeq(_, _)
StrLeq(a, b) ==
    IF a = <<>> THEN TRUE
    ELSE IF b = <<>> THEN FALSE
    ELSE IF Head(a) < Head(b) THEN TRUE
    ELSE IF Head(a) > Head(b) THEN FALSE
    ELSE StrLeq(Tail(a), Tail(b))

RECURSIVE SortedInsert(_, _)
SortedInsert(x, sorted) ==
    IF sorted = <<>> THEN <<x>>
    ELSE IF StrLeq(x, Head(sorted)) THEN <<x>> \o sorted
    ELSE <<Head(sorted)>> \o SortedInsert(x, Tail(sorted))

\* Vec<String>::sort()
RECURSIVE Sort(_)
Sort(v) == IF v = <<>> THEN <<>> ELSE SortedInsert(Head(v), Sort(Tail(v)))

\* Hasher::new().update(bytes).finalize().to_hex().to_string()
Blake3Hex(input) == [blake3_hex |-> input]

---------------------------------------------------------------------------
(* The UserAgent record and its derived identifiers *)

\* #[derive(Default)] of Product, OS, Device, CPU, Engine and UserAgent
DefaultProduct == [name |-> None, major |-> None, minor |-> None, patch |-> None]
DefaultOS ==
    [name |-> None, major |-> None, minor |-> None, patch |-> None,
     patch_minor |-> None]
DefaultDevice == [name |-> None, brand |-> None, model |-> None]
DefaultCPU == [architecture |-> None]
DefaultEngine ==
    [name |-> None, major |-> None, minor |-> None, patch |-> None,
     patch_minor |-> None]
DefaultUserAgent ==
    [ip |-> None, fingerprint |-> None, hash |-> None,
     product |-> DefaultProduct, os |-> DefaultOS, device |-> DefaultDevice,
     cpu |-> DefaultCPU, engine |-> DefaultEngine, user_agent |-> None]

\* fingerprint(): the browser component
ProductParts(self) ==
    IF IsSome(self.product.name) THEN
        <<Tag_b \o Unwrap(self.product.name)>> \o
        (IF IsSome(self.product.major) THEN
            <<Tag_bv \o Unwrap(self.product.major)>> \o
            (IF IsSome(self.product.minor) THEN
                <<Tag_bvm \o Unwrap(self.product.major) \o <<Dot>>
                          \o Unwrap(self.product.minor)>>
             ELSE <<>>)
         ELSE <<>>)
    ELSE <<>>

\* fingerprint(): the OS component
OsParts(self) ==
    IF IsSome(self.os.name) THEN
        <<Tag_o \o Unwrap(self.os.name)>> \o
        (IF IsSome(self.os.major) THEN
            <<Tag_ov \o Unwrap(self.os.major)>> \o
            (IF IsSome(self.os.minor) THEN
                <<Tag_ovm \o Unwrap(self.os.major) \o <<Dot>>
                          \o Unwrap(self.os.minor)>>
             ELSE <<>>)
         ELSE <<>>)
    ELSE <<>>

\* the device component with brand and model outside the name block
DeviceParts_Ungated(self) ==
    (IF IsSome(self.device.name)
     THEN <<Tag_d \o Unwrap(self.device.name)>> ELSE <<>>) \o
    (IF IsSome(self.device.brand)
     THEN <<Tag_db \o Unwrap(self.device.brand)>> ELSE <<>>) \o
    (IF IsSome(self.device.model)
     THEN <<Tag_dm \o Unwrap(self.device.model)>> ELSE <<>>)

\* fingerprint(): the device component
DeviceParts(self) ==
    IF IsSome(self.device.name) THEN
        <<Tag_d \o Unwrap(self.device.name)>> \o
        (IF IsSome(self.device.brand)
         THEN <<Tag_db \o Unwrap(self.device.brand)>> ELSE <<>>) \o
        (IF IsSome(self.device.model)
         THEN <<Tag_dm \o Unwrap(self.device.model)>> ELSE <<>>)
    ELSE <<>>

\* fingerprint(): the CPU architecture
CpuParts(self) ==
    IF IsSome(self.cpu.architecture)
    THEN <<Tag_c \o Unwrap(self.cpu.architecture)>> ELSE <<>>

\* the engine component with the version outside the name block
EngineParts_MajorUngated(self) ==
    (IF IsSome(self.engine.name)
     THEN <<Tag_e \o Unwrap(self.engine.name)>> ELSE <<>>) \o
    (IF IsSome(self.engine.major)
     THEN <<Tag_ev \o Unwrap(self.engine.major)>> ELSE <<>>)

\* fingerprint(): the engine component
EngineParts(self) ==
    IF IsSome(self.engine.name) THEN
        <<Tag_e \o Unwrap(self.engine.name)>> \o
        (IF IsSome(self.engine.major)
         THEN <<Tag_ev \o Unwrap(self.engine.major)>> ELSE <<>>)
    ELSE <<>>

\* fingerprint(): the length of the raw text, ua.len()
LengthPart(text) == Tag_l \o ToDecimal(ByteLen(text))

\* fingerprint(): length, character distribution and word count of the raw text
StatParts(text) ==
    << LengthPart(text),
       Tag_d \o ToDecimal(CountDigits(text)),
       Tag_s \o ToDecimal(CountSymbols(text)),
       Tag_w \o ToDecimal(WordCount(text)) >>

\* fingerprint(): the browser capability flags
CapabilityParts(text) ==
    (IF Contains(text, Marker_Mobile) THEN <<Tag_fm1>> ELSE <<>>) \o
    (IF Contains(text, Marker_AppleWebKit) THEN <<Tag_faw1>> ELSE <<>>) \o
    (IF Contains(text, Marker_Gecko) THEN <<Tag_fg1>> ELSE <<>>) \o
    (IF Contains(text, Marker_Chrome) THEN <<Tag_fc1>> ELSE <<>>) \o
    (IF Contains(text, Marker_Safari) /\ ~Contains(text, Marker_Chrome)
     THEN <<Tag_fs1>> ELSE <<>>) \o
    (IF Contains(text, Marker_Firefox) THEN <<Tag_ff1>> ELSE <<>>) \o
    (IF Contains(text, Marker_Edge) \/ Contains(text, Marker_EdgSlash)
     THEN <<Tag_fe1>> ELSE <<>>) \o
    (IF Contains(text, Marker_MSIE) \/ Contains(text, Marker_Trident)
     THEN <<Tag_fi1>> ELSE <<>>)

\* the platform flags as independent ifs, not an else-if chain
PlatformParts_Independent(text) ==
    (IF Contains(text, Marker_Win) THEN <<Tag_fow1>> ELSE <<>>) \o
    (IF Contains(text, Marker_Mac) THEN <<Tag_fom1>> ELSE <<>>) \o
    (IF Contains(text, Marker_Linux) THEN <<Tag_fol1>> ELSE <<>>) \o
    (IF Contains(text, Marker_Android) THEN <<Tag_foa1>> ELSE <<>>) \o
    (IF \/ Contains(text, Marker_iOS)
        \/ Contains(text, Marker_iPhone)
        \/ Contains(text, Marker_iPad) THEN <<Tag_foi1>> ELSE <<>>)

\* fingerprint(): the platform flag, an if / else-if chain
PlatformParts(text) ==
    IF Contains(text, Marker_Win) THEN <<Tag_fow1>>
    ELSE IF Contains(text, Marker_Mac) THEN <<Tag_fom1>>
    ELSE IF Contains(text, Marker_Linux) THEN <<Tag_fol1>>
    ELSE IF Contains(text, Marker_Android) THEN <<Tag_foa1>>
    ELSE IF \/ Contains(text, Marker_iOS)
            \/ Contains(text, Marker_iPhone)
            \/ Contains(text, Marker_iPad) THEN <<Tag_foi1>>
    ELSE <<>>

\* the IP subnet with the whole IPv4 address kept
NetworkParts_AllOctets(self) ==
    IF IsSome(self.ip) THEN
        LET ip == Unwrap(self.ip) IN
        IF ContainsChar(ip, Dot) THEN <<Tag_ip4 \o ip>>
        ELSE IF ContainsChar(ip, Colon) THEN
            LET parts == Split(ip, Colon) IN
            IF Len(parts) >= 4
            THEN <<Tag_ip6 \o Join(SubSeq(parts, 1, 4), <<Colon>>)>> ELSE <<>>
        ELSE <<>>
    ELSE <<>>

\* fingerprint(): the IP subnet
NetworkParts(self) ==
    IF IsSome(self.ip) THEN
        LET ip == Unwrap(self.ip) IN
        IF ContainsChar(ip, Dot) THEN
            LET parts == Split(ip, Dot) IN
            IF Len(parts) >= 2
            THEN <<Tag_ip4 \o parts[1] \o <<Dot>> \o parts[2]>> ELSE <<>>
        ELSE IF ContainsChar(ip, Colon) THEN
            LET parts == Split(ip, Colon) IN
            IF Len(parts) >= 4
            THEN <<Tag_ip6 \o Join(SubSeq(parts, 1, 4), <<Colon>>)>> ELSE <<>>
        ELSE <<>>
    ELSE <<>>

\* fingerprint(): feature_parts as pushed, before the sort
FeatureParts(self, text) ==
    ProductParts(self) \o OsParts(self) \o DeviceParts(self) \o CpuParts(self)
    \o EngineParts(self) \o StatParts(text) \o CapabilityParts(text)
    \o PlatformParts(text) \o NetworkParts(self)

\* fingerprint(): feature_parts after feature_parts.sort()
SortedFeatures(self, text) == Sort(FeatureParts(self, text))

\* UserAgent::fingerprint
Fingerprint(self) ==
    IF IsNone(self.user_agent) THEN None
    ELSE LET features ==
                 Join(SortedFeatures(self, Unwrap(self.user_agent)), FeatureSeparator)
             primary_hash == Blake3Hex(features)
         IN  Some(Blake3Hex(primary_hash))

\* the values present in a group, in field order: [..].into_iter().flatten()
RECURSIVE Flatten(_)
Flatten(opts) ==
    IF opts = <<>> THEN <<>>
    ELSE (IF IsSome(Head(opts)) THEN <<Unwrap(Head(opts))>> ELSE <<>>)
         \o Flatten(Tail(opts))

\* a group string with absent fields kept as empty placeholders
GroupStr_Placeholders(opts) ==
    Join([i \in 1..Len(opts) |-> IF IsSome(opts[i]) THEN Unwrap(opts[i]) ELSE <<>>],
         <<Dot>>)

\* normalized_string_internal: browser_str, os_str, device_str
GroupStr(opts) ==
    LET parts == Flatten(opts) IN
    IF parts # <<>> THEN Join(parts, <<Dot>>) ELSE <<>>

\* normalized_string_internal: the sections vector before the join
Sections(self, ua_string) ==
    LET browser_str == GroupStr(<<self.product.name, self.product.major,
                                  self.product.minor, self.product.patch>>)
        os_str == GroupStr(<<self.os.name, self.os.major, self.os.minor,
                             self.os.patch, self.os.patch_minor>>)
        device_str == GroupStr(<<self.device.name, self.device.brand,
                                 self.device.model>>)
    IN  (IF browser_str # <<>> THEN <<browser_str>> ELSE <<>>)
        \o (IF os_str # <<>> THEN <<os_str>> ELSE <<>>)
        \o (IF device_str # <<>> THEN <<device_str>> ELSE <<>>)
        \o <<ua_string>>

\* UserAgent::normalized_string_internal
NormalizedStringInternal(self, ua_string) == Join(Sections(self, ua_string), <<Pipe>>)

\* UserAgent::normalized_string
NormalizedString(self) ==
    IF IsNone(self.user_agent) THEN None
    ELSE Some(NormalizedStringInternal(self, Unwrap(self.user_agent)))

\* the hasher fed the address as well
HashInput_WithIp(self, ua_string) ==
    NormalizedStringInternal(self, ua_string)
    \o (IF IsSome(self.ip) THEN <<Pipe>> \o Unwrap(self.ip) ELSE <<>>)

\* the bytes hash() feeds to the hasher
HashInput(self, ua_string) == NormalizedStringInternal(self, ua_string)

\* UserAgent::hash
Hash(self) ==
    IF IsNone(self.user_agent) THEN None
    ELSE Some(Blake3Hex(HashInput(self, Unwrap(self.user_agent))))

---------------------------------------------------------------------------
(* Bounds and the inputs the operations are given *)

MaxPresent == 3      \* structured fields a directly built record sets
MaxWords == 2        \* words a raw agent text is made of
MaxIpParts == 5      \* pieces an address text is made of
NumThreads == 3      \* threads that call get()
MaxCalls == 2        \* calls of get() per thread

Threads == 1..NumThreads

\* all concatenations of at most n members of pieces
RECURSIVE Texts(_, _)
Texts(pieces, n) ==
    IF n = 0 THEN {<<>>}
    ELSE LET shorter == Texts(pieces, n - 1)
         IN  shorter \cup {t \o p : t \in shorter, p \in pieces}

\* words of raw agent texts: the platform markers, a lower-case variant,
\* a space, a digit, a two-byte letter (U+00E9) and a three-byte symbol (U+20AC)
AgentWords ==
    { Marker_Win, Marker_Mac, Marker_Linux, Marker_Android, Marker_iOS,
      Marker_iPhone, Marker_iPad, <<108, 105, 110, 117, 120>>, <<32>>, <<55>>,
      <<233>>, <<8364>> }

AgentTexts == Texts(AgentWords, MaxWords)

\* pieces of address texts: two digits, the dot and the colon
IpPieces == {<<49>>, <<57>>, <<Dot>>, <<Colon>>}

IpTexts == Texts(IpPieces, MaxIpParts)

\* the 18 optional fields of product, os, device, cpu and engine
StructuredFields ==
    ({"product"} \X {"name", "major", "minor", "patch"})
    \cup ({"os"} \X {"name", "major", "minor", "patch", "patch_minor"})
    \cup ({"device"} \X {"name", "brand", "model"})
    \cup ({"cpu"} \X {"architecture"})
    \cup ({"engine"} \X {"name", "major", "minor", "patch", "patch_minor"})

FieldOf(r, gf) == r[gf[1]][gf[2]]
WithField(r, gf, v) == [r EXCEPT ![gf[1]][gf[2]] = v]
PresentCount(r) == Cardinality({gf \in StructuredFields : IsSome(FieldOf(r, gf))})

\* values of a structured field: "1", "2" and the empty string
Value1 == <<49>>
Value2 == <<50>>
FieldValues == {<<>>, Value1}
C5_AltFieldValues == {<<>>, Value1, Value2}

\* "Win 1": one digit, so that the digit-count token is "d:1"
SampleAgent == <<87, 105, 110, 32, 49>>

---------------------------------------------------------------------------
(* The caller of the record API *)

NoCall == [op |-> "none", args |-> <<>>, value |-> None, trace |-> <<>>]

InitCell == [state |-> "incomplete", value |-> None]
InitThread == [pc |-> "idle", got |-> None, calls |-> 0]

Init ==
    /\ ua = DefaultUserAgent
    /\ out = NoCall
    /\ cell = InitCell
    /\ thr = [t \in Threads |-> InitThread]
    /\ runs = 0
    /\ aborted = FALSE

\* UserAgent::new(): a fresh default record replaces the one held
New ==
    /\ ua # DefaultUserAgent \/ out # NoCall
    /\ ua' = DefaultUserAgent
    /\ out' = NoCall
    /\ UNCHANGED <<cell, thr, runs, aborted>>

\* ua.user_agent = o, on a record not yet passed to a call
SetUserAgent(o) ==
    /\ out = NoCall
    /\ IsNone(ua.user_agent)
    /\ ua' = [ua EXCEPT !.user_agent = o]
    /\ UNCHANGED <<out, cell, thr, runs, aborted>>

\* ua.ip = o
SetIp(o) ==
    /\ out = NoCall
    /\ IsNone(ua.ip)
    /\ ua' = [ua EXCEPT !.ip = o]
    /\ UNCHANGED <<out, cell, thr, runs, aborted>>

\* ua.<group>.<field> = Some(v)
SetField(gf, v) ==
    /\ out = NoCall
    /\ IsNone(FieldOf(ua, gf))
    /\ PresentCount(ua) < MaxPresent
    /\ ua' = WithField(ua, gf, Some(v))
    /\ UNCHANGED <<out, cell, thr, runs, aborted>>

\* ua.fingerprint()
CallFingerprint ==
    /\ out.op # "fingerprint"
    /\ out' = [op |-> "fingerprint", args |-> <<>>, value |-> Fingerprint(ua),
               trace |-> IF IsSome(ua.user_agent)
                         THEN SortedFeatures(ua, Unwrap(ua.user_agent)) ELSE <<>>]
    /\ UNCHANGED <<ua, cell, thr, runs, aborted>>

\* ua.hash()
CallHash ==
    /\ out.op # "hash"
    /\ out' = [op |-> "hash", args |-> <<>>, value |-> Hash(ua),
               trace |-> IF IsSome(ua.user_agent)
                         THEN Sections(ua, Unwrap(ua.user_agent)) ELSE <<>>]
    /\ UNCHANGED <<ua, cell, thr, runs, aborted>>

\* ua.normalized_string()
CallNormalizedString ==
    /\ out.op # "normalized_string"
    /\ out' = [op |-> "normalized_string", args |-> <<>>,
               value |-> NormalizedString(ua),
               trace |-> IF IsSome(ua.user_agent)
                         THEN Sections(ua, Unwrap(ua.user_agent)) ELSE <<>>]
    /\ UNCHANGED <<ua, cell, thr, runs, aborted>>

\* records with directly set fields
Next ==
    \/ New
    \/ SetUserAgent(Some(SampleAgent))
    \/ \E gf \in StructuredFields, v \in FieldValues : SetField(gf, v)
    \/ CallFingerprint

Spec == Init /\ [][Next]_vars

\* the groups of the canonical string
NextGroups ==
    \/ New
    \/ \E t \in {<<>>, SampleAgent} : SetUserAgent(Some(t))
    \/ \E gf \in StructuredFields, v \in FieldValues : SetField(gf, v)
    \/ CallNormalizedString

SpecGroups == Init /\ [][NextGroups]_vars

\* raw agent texts
NextAgent ==
    \/ New
    \/ \E t \in AgentTexts : SetUserAgent(Some(t))
    \/ CallFingerprint
    \/ CallHash
    \/ CallNormalizedString

SpecAgent == Init /\ [][NextAgent]_vars

\* address texts
NextIp ==
    \/ New
    \/ SetUserAgent(Some(SampleAgent))
    \/ \E t \in IpTexts : SetIp(Some(t))
    \/ CallFingerprint

SpecIp == Init /\ [][NextIp]_vars

---------------------------------------------------------------------------
(* parse() and the external parser *)

\* what parse_product, parse_os, parse_device, parse_cpu and parse_engine may
\* report for a text: the external parser is a black box, every field of
\* every group is optional
ProductResults ==
    { DefaultProduct,
      [DefaultProduct EXCEPT !.name = Some(Value1)],
      [name |-> Some(Value1), major |-> Some(Value1), minor |-> Some(Value2),
       patch |-> Some(Value1)] }
OsResults ==
    { DefaultOS,
      [DefaultOS EXCEPT !.name = Some(Value1), !.major = Some(Value2)],
      [name |-> Some(Value1), major |-> Some(Value1), minor |-> Some(Value1),
       patch |-> Some(Value1), patch_minor |-> Some(Value1)] }
DeviceResults ==
    { DefaultDevice,
      [DefaultDevice EXCEPT !.name = Some(Value1)],
      [name |-> None, brand |-> Some(Value1), model |-> Some(Value2)] }
CpuResults == {DefaultCPU, [architecture |-> Some(Value1)]}
EngineResults ==
    { [name |-> None, major |-> None, minor |-> None, patch |-> None],
      [name |-> Some(Value1), major |-> None, minor |-> None, patch |-> None],
      [name |-> Some(Value1), major |-> Some(Value1), minor |-> Some(Value1),
       patch |-> Some(Value1)] }
ParserResults ==
    [product : ProductResults, os : OsResults, device : DeviceResults,
     cpu : CpuResults, engine : EngineResults]

\* the texts parse() is given: "", "Win 1" and "Linux"; "", "1.9.1.9", "1:9::1"
ParseAgents == {<<>>, SampleAgent, Marker_Linux}
ParseIps == {<<>>, <<49, 46, 57, 46, 49, 46, 57>>, <<49, 58, 57, 58, 58, 49>>}

\* the raw text stored without the filter
FilterNonEmpty_KeepsEmpty(agent) == Some(agent)

\* Some(agent.clone()).filter(|s| !s.is_empty())
FilterNonEmpty(agent) == IF agent # <<>> THEN Some(agent) ELSE None

\* the record parse() returns once the parser has reported p
ParsedRecord(agent, ip, p) ==
    LET fresh == [DefaultUserAgent EXCEPT !.ip = Some(ip)]
        filled ==
            [fresh EXCEPT
                !.user_agent = FilterNonEmpty(agent),
                !.product = [name |-> p.product.name, major |-> p.product.major,
                             minor |-> p.product.minor, patch |-> p.product.patch],
                !.os = [name |-> p.os.name, major |-> p.os.major,
                        minor |-> p.os.minor, patch |-> p.os.patch,
                        patch_minor |-> p.os.patch_minor],
                !.device = [name |-> p.device.name, brand |-> p.device.brand,
                            model |-> p.device.model],
                !.cpu = [architecture |-> p.cpu.architecture],
                !.engine = [fresh.engine EXCEPT
                               !.name = p.engine.name, !.major = p.engine.major,
                               !.minor = p.engine.minor, !.patch = p.engine.patch]]
        with_fingerprint == [filled EXCEPT !.fingerprint = Fingerprint(filled)]
    IN  [with_fingerprint EXCEPT !.hash = Hash(with_fingerprint)]

\* parse(agent, ip), its get() finding the parser or loading the rule file
Parse(agent, ip, p) ==
    /\ out = NoCall
    /\ ua = DefaultUserAgent
    /\ IF cell.state = "complete"
       THEN UNCHANGED <<cell, runs>>
       ELSE /\ runs' = runs + 1
            /\ cell' = [state |-> "complete", value |-> Some(runs + 1)]
    /\ ua' = ParsedRecord(agent, ip, p)
    /\ out' = [op |-> "parse", args |-> <<agent, ip>>, value |-> None, trace |-> <<>>]
    /\ UNCHANGED <<thr, aborted>>

\* parse(agent, ip), its get() running init(), which panics: no record
ParsePanics(agent, ip) ==
    /\ out = NoCall
    /\ ua = DefaultUserAgent
    /\ cell.state = "incomplete"
    /\ runs < MaxCalls
    /\ runs' = runs + 1
    /\ out' = [op |-> "parse_panicked", args |-> <<agent, ip>>, value |-> None,
               trace |-> <<>>]
    /\ UNCHANGED <<ua, cell, thr, aborted>>

NextParse ==
    \/ New
    \/ \E agent \in ParseAgents, ip \in ParseIps, p \in ParserResults :
           Parse(agent, ip, p)
    \/ \E agent \in ParseAgents, ip \in ParseIps : ParsePanics(agent, ip)
    \/ CallFingerprint
    \/ CallHash

SpecParse == Init /\ [][NextParse]_vars

---------------------------------------------------------------------------
(* get() under concurrent callers: USER_AGENT_PARSER.get_or_init(init) *)

\* a thread calls get(), directly or through parse()
CallGet(t) ==
    /\ ~aborted
    /\ thr[t].pc \in {"idle", "returned"}
    /\ thr[t].calls < MaxCalls
    /\ thr' = [thr EXCEPT ![t].pc = "get", ![t].calls = @ + 1, ![t].got = None]
    /\ UNCHANGED <<ua, out, cell, runs, aborted>>

\* get_or_init finds the cell initialised and returns its instance
GetInitialized(t) ==
    /\ ~aborted
    /\ thr[t].pc = "get"
    /\ cell.state = "complete"
    /\ thr' = [thr EXCEPT ![t].pc = "returned", ![t].got = cell.value]
    /\ UNCHANGED <<ua, out, cell, runs, aborted>>

\* get_or_init finds the cell empty, claims it and enters init(); a caller
\* that finds the cell claimed waits at "get"
GetRunInit(t) ==
    /\ ~aborted
    /\ thr[t].pc = "get"
    /\ cell.state = "incomplete"
    /\ cell' = [cell EXCEPT !.state = "running"]
    /\ runs' = runs + 1
    /\ thr' = [thr EXCEPT ![t].pc = "init"]
    /\ UNCHANGED <<ua, out, aborted>>

\* init() loads the rule file: the cell holds the instance of this run
InitLoaded(t) ==
    /\ ~aborted
    /\ thr[t].pc = "init"
    /\ cell' = [state |-> "complete", value |-> Some(runs)]
    /\ thr' = [thr EXCEPT ![t].pc = "returned", ![t].got = Some(runs)]
    /\ UNCHANGED <<ua, out, runs, aborted>>

\* init() cannot load the rule file and panics; the panic unwinds the
\* calling thread and get_or_init leaves the cell empty
InitPanics(t) ==
    /\ ~aborted
    /\ thr[t].pc = "init"
    /\ cell' = [cell EXCEPT !.state = "incomplete"]
    /\ thr' = [thr EXCEPT ![t].pc = "panicked"]
    /\ UNCHANGED <<ua, out, runs, aborted>>

\* the same panic in a build with panic = "abort": the process ends
InitAborts(t) ==
    /\ ~aborted
    /\ thr[t].pc = "init"
    /\ aborted' = TRUE
    /\ thr' = [thr EXCEPT ![t].pc = "panicked"]
    /\ UNCHANGED <<ua, out, cell, runs>>

NextInit ==
    \E t \in Threads :
        \/ CallGet(t)
        \/ GetInitialized(t)
        \/ GetRunInit(t)
        \/ InitLoaded(t)
        \/ InitPanics(t)
        \/ InitAborts(t)

SpecInit == Init /\ [][NextInit]_vars

---------------------------------------------------------------------------
(* Claims about the feature vector of fingerprint() *)

HasPrefix(s, p) == Len(s) >= Len(p) /\ SubSeq(s, 1, Len(p)) = p
HasToken(tokens, t) == \E i \in 1..Len(tokens) : tokens[i] = t
TokensWithPrefix(tokens, p) == {i \in 1..Len(tokens) : HasPrefix(tokens[i], p)}

\* fingerprint() has just returned the identifier of a record with a raw text
FingerprintDone == out.op = "fingerprint" /\ IsSome(ua.user_agent)

\* the fields fingerprint() reads, each with the fields that gate it
C5_Gates(gf) ==
    IF gf \in {<<"product", "major">>, <<"os", "major">>, <<"engine", "major">>,
               <<"device", "brand">>, <<"device", "model">>}
    THEN {<<gf[1], "name">>}
    ELSE IF gf \in {<<"product", "minor">>, <<"os", "minor">>}
    THEN {<<gf[1], "name">>, <<gf[1], "major">>}
    ELSE {}

C5_ReadByFingerprint ==
    { <<"product", "name">>, <<"product", "major">>, <<"product", "minor">>,
      <<"os", "name">>, <<"os", "major">>, <<"os", "minor">>,
      <<"device", "name">>, <<"device", "brand">>, <<"device", "model">>,
      <<"cpu", "architecture">>, <<"engine", "name">>, <<"engine", "major">> }

C5_Contributes(r, gf) ==
    gf \in C5_ReadByFingerprint /\ \A g \in C5_Gates(gf) : IsSome(FieldOf(r, g))

\* the records that differ from r in exactly the field gf
C5_OneFieldChanged(r, gf) ==
    {WithField(r, gf, o) : o \in ({None} \cup {Some(v) : v \in C5_AltFieldValues})
                                 \ {FieldOf(r, gf)}}

\* C5 as stated: a change of any one structured field changes the sorted
\* feature tokens that fingerprint() hashes
C5_AnyFieldChangesTokens ==
    FingerprintDone =>
        \A gf \in StructuredFields : \A r2 \in C5_OneFieldChanged(ua, gf) :
            SortedFeatures(r2, Unwrap(r2.user_agent)) # out.trace

\* C5 amended: a change of one structured field changes the sorted feature
\* tokens exactly when fingerprint() reads the field and the fields gating
\* it are present; a change of any other field leaves the tokens as they are
C5_ContributingFieldChangesTokens ==
    FingerprintDone =>
        \A gf \in StructuredFields : \A r2 \in C5_OneFieldChanged(ua, gf) :
            (SortedFeatures(r2, Unwrap(r2.user_agent)) # out.trace)
                <=> C5_Contributes(ua, gf)

\* C5: fingerprint() was called on a record whose os name, major and minor are set
C5_Witness ==
    /\ FingerprintDone
    /\ IsSome(ua.os.name) /\ IsSome(ua.os.major) /\ IsSome(ua.os.minor)

\* C7 as stated: db:<brand> and dm:<model> are emitted whenever brand and
\* model are present, whether or not device.name is, and d:<name> whenever
\* device.name is present
C7_DeviceTokensUngated ==
    FingerprintDone =>
        /\ IsSome(ua.device.name) =>
               HasToken(out.trace, Tag_d \o Unwrap(ua.device.name))
        /\ IsSome(ua.device.brand) =>
               HasToken(out.trace, Tag_db \o Unwrap(ua.device.brand))
        /\ IsSome(ua.device.model) =>
               HasToken(out.trace, Tag_dm \o Unwrap(ua.device.model))

\* C7 amended: d:<name> is emitted whenever device.name is present; a db:
\* token is emitted exactly when device.name and device.brand are both
\* present, and it is db:<brand>; a dm: token exactly when device.name and
\* device.model are both present, and it is dm:<model>
C7_DeviceTokensGatedOnName ==
    FingerprintDone =>
        /\ IsSome(ua.device.name) =>
               HasToken(out.trace, Tag_d \o Unwrap(ua.device.name))
        /\ Cardinality(TokensWithPrefix(out.trace, Tag_d))
               = 1 + (IF IsSome(ua.device.name) THEN 1 ELSE 0)
        /\ IF IsSome(ua.device.name) /\ IsSome(ua.device.brand)
           THEN /\ HasToken(out.trace, Tag_db \o Unwrap(ua.device.brand))
                /\ Cardinality(TokensWithPrefix(out.trace, Tag_db)) = 1
           ELSE TokensWithPrefix(out.trace, Tag_db) = {}
        /\ IF IsSome(ua.device.name) /\ IsSome(ua.device.model)
           THEN /\ HasToken(out.trace, Tag_dm \o Unwrap(ua.device.model))
                /\ Cardinality(TokensWithPrefix(out.trace, Tag_dm)) = 1
           ELSE TokensWithPrefix(out.trace, Tag_dm) = {}

\* C7: fingerprint() was called on a record with a brand and a model and no device name
C7_Witness ==
    /\ FingerprintDone
    /\ IsNone(ua.device.name) /\ IsSome(ua.device.brand) /\ IsSome(ua.device.model)

\* the platform markers in the order of the chain, each with its flag
C8_Priority ==
    << [markers |-> {Marker_Win}, flag |-> Tag_fow1],
       [markers |-> {Marker_Mac}, flag |-> Tag_fom1],
       [markers |-> {Marker_Linux}, flag |-> Tag_fol1],
       [markers |-> {Marker_Android}, flag |-> Tag_foa1],
       [markers |-> {Marker_iOS, Marker_iPhone, Marker_iPad}, flag |-> Tag_foi1] >>

C8_Matched(text, i) == \E m \in C8_Priority[i].markers : Contains(text, m)

\* C8: at most one platform flag is emitted, that of the first marker the
\* raw text contains in the order Win, Mac, Linux, Android, iOS/iPhone/iPad
\* (case-sensitively), and none when the text contains no marker
C8_PlatformFlagPriority ==
    FingerprintDone =>
        LET text == Unwrap(ua.user_agent)
            flagged == {k \in 1..Len(out.trace) :
                           \E i \in 1..Len(C8_Priority) : out.trace[k] = C8_Priority[i].flag}
        IN  /\ Cardinality(flagged) <= 1
            /\ \A i \in 1..Len(C8_Priority) :
                   HasToken(out.trace, C8_Priority[i].flag)
                       <=> /\ C8_Matched(text, i)
                           /\ \A j \in 1..(i - 1) : ~C8_Matched(text, j)

\* C8: fingerprint() was called on a text with both Linux and Android, and emitted fol:1
C8_Witness ==
    /\ FingerprintDone
    /\ Contains(Unwrap(ua.user_agent), Marker_Linux)
    /\ Contains(Unwrap(ua.user_agent), Marker_Android)
    /\ HasToken(out.trace, Tag_fol1)

\* C10 as stated: the l: token carries the number of characters of the raw
\* text, the unit in which the digits and the symbols are counted
C10_LengthInCharacters ==
    FingerprintDone =>
        HasToken(out.trace, Tag_l \o ToDecimal(Len(Unwrap(ua.user_agent))))

\* C1 as stated: fingerprint() and hash() return None for every record whose
\* user_agent is None or Some("")
C1_AbsentOrEmptyGivesNone ==
    (out.op \in {"fingerprint", "hash"}
        /\ (IsNone(ua.user_agent) \/ ua.user_agent = Some(<<>>)))
    => IsNone(out.value)

\* where the character c stands in s
C9_Positions(s, c) == {i \in 1..Len(s) : s[i] = c}

C9_NthPosition(s, c, n) ==
    CHOOSE i \in C9_Positions(s, c) :
        Cardinality({j \in C9_Positions(s, c) : j < i}) = n - 1

C9_Expected(ipo) ==
    IF IsNone(ipo) THEN {}
    ELSE LET ip == Unwrap(ipo)
             dots == Cardinality(C9_Positions(ip, Dot))
             colons == Cardinality(C9_Positions(ip, Colon))
         IN  IF dots >= 1 THEN
                 LET d1 == C9_NthPosition(ip, Dot, 1)
                     d2 == IF dots >= 2 THEN C9_NthPosition(ip, Dot, 2)
                           ELSE Len(ip) + 1
                 IN  {Tag_ip4 \o SubSeq(ip, 1, d1 - 1) \o <<Dot>>
                              \o SubSeq(ip, d1 + 1, d2 - 1)}
             ELSE IF colons >= 3 THEN
                 LET c4 == IF colons >= 4 THEN C9_NthPosition(ip, Colon, 4)
                           ELSE Len(ip) + 1
                 IN  {Tag_ip6 \o SubSeq(ip, 1, c4 - 1)}
             ELSE {}

\* C9: at most one network token; for an address with a dot it is
\* ip4:<s0>.<s1>, the text before the first dot and the text between the
\* first and the second; otherwise for an address with at least three colons
\* it is ip6: and the text before the fourth colon (all of it with three);
\* otherwise, and for no address, there is none
C9_NetworkPrefix ==
    FingerprintDone =>
        LET network == TokensWithPrefix(out.trace, Tag_ip4)
                           \cup TokensWithPrefix(out.trace, Tag_ip6)
        IN  /\ Cardinality(network) <= 1
            /\ {out.trace[k] : k \in network} = C9_Expected(ua.ip)

\* C9: fingerprint() was called with an address of three or more dot segments, the last not empty
C9_Witness ==
    /\ FingerprintDone
    /\ IsSome(ua.ip)
    /\ Cardinality(C9_Positions(Unwrap(ua.ip), Dot)) >= 2
    /\ Unwrap(ua.ip)[Len(Unwrap(ua.ip))] # Dot
    /\ TokensWithPrefix(out.trace, Tag_ip4) # {}

\* the canonical string as the specification describes it
C3_Present(o) == IsSome(o)

C3_GroupString(group, names) ==
    LET present == SelectSeq([i \in 1..Len(names) |-> group[names[i]]], C3_Present)
    IN  Join([i \in 1..Len(present) |-> present[i][1]], <<Dot>>)

C3_NonEmpty(s) == s # <<>>

C3_Expected(r) ==
    Join(SelectSeq(<< C3_GroupString(r.product, <<"name", "major", "minor", "patch">>),
                      C3_GroupString(r.os, <<"name", "major", "minor", "patch",
                                             "patch_minor">>),
                      C3_GroupString(r.device, <<"name", "brand", "model">>) >>,
                   C3_NonEmpty)
         \o <<Unwrap(r.user_agent)>>, <<Pipe>>)

\* C3: normalized_string() is the '|'-join of the non-empty group strings of
\* product, os and device, in that order, and then the raw text; a group
\* string is the '.'-join of the group's present fields in field order
C3_CanonicalString ==
    (out.op = "normalized_string" /\ IsSome(ua.user_agent)) =>
        LET text == Unwrap(ua.user_agent)
            value == Unwrap(out.value)
        IN  /\ out.value = Some(C3_Expected(ua))
            /\ Len(value) >= Len(text)
            /\ SubSeq(value, Len(value) - Len(text) + 1, Len(value)) = text
            /\ Len(out.trace) \in 1..4
            /\ out.trace[Len(out.trace)] = text
            /\ text # <<>> => value # <<>>

\* C3: normalized_string() was called on a record whose product group is one empty string (dropped) and whose os group skips an absent major
C3_Witness ==
    /\ out.op = "normalized_string"
    /\ IsSome(ua.user_agent)
    /\ ua.product.name = Some(<<>>)
    /\ IsNone(ua.product.major) /\ IsNone(ua.product.minor) /\ IsNone(ua.product.patch)
    /\ IsSome(ua.os.name) /\ IsSome(ua.os.minor) /\ IsNone(ua.os.major)
    /\ Len(out.trace) = 2

\* the parser reported no match for any group
C2_NoMatch == \A gf \in StructuredFields : IsNone(FieldOf(ua, gf))

C2_ParsedEmpty == out.op = "parse" /\ out.args[1] = <<>> /\ C2_NoMatch

\* C2 as stated: parse of the empty text, the parser reporting no match,
\* returns a record whose every field is absent, ip included
C2_EmptyAgentAllAbsent == C2_ParsedEmpty => ua = DefaultUserAgent

\* C2 amended: parse of the empty text, the parser reporting no match,
\* returns a record whose ip is Some(the ip argument) and whose every other
\* field, fingerprint and hash included, is absent
C2_EmptyAgentAllAbsentButIp ==
    C2_ParsedEmpty => ua = [DefaultUserAgent EXCEPT !.ip = Some(out.args[2])]

\* C2: parse was called with the empty text and a non-empty address, the parser reporting no match
C2_Witness == C2_ParsedEmpty /\ out.args[2] # <<>>

\* r with only the fields the family hash is about
C4_Representative(r) ==
    [DefaultUserAgent EXCEPT !.user_agent = r.user_agent, !.product = r.product,
                             !.os = r.os, !.device = r.device]

\* C4: hash() of a record is hash() of the record that has the same
\* user_agent, product, os and device and nothing else set, so two records
\* that agree on these have the same hash, whatever their ip, cpu, engine and
\* stored fingerprint and hash; the hash parse() stores is that value too
C4_HashIndependentOfAddress ==
    /\ out.op = "hash" => out.value = Hash(C4_Representative(ua))
    /\ out.op \in {"parse", "hash", "fingerprint"} =>
           ua.hash = Hash(C4_Representative(ua))

\* C4: hash() was called on a parsed record with an address, a cpu, an engine and a stored fingerprint
C4_Witness ==
    /\ out.op = "hash"
    /\ IsSome(out.value)
    /\ IsSome(ua.ip) /\ Unwrap(ua.ip) # <<>>
    /\ IsSome(ua.cpu.architecture)
    /\ IsSome(ua.engine.name)
    /\ IsSome(ua.fingerprint)
    /\ IsSome(ua.product.name)

\* C6 as stated: init() is run exactly once for the whole process, also when
\* a run of it fails; every caller that returns holds the one instance, which
\* is never replaced
C6_InitRunsExactlyOnce ==
    /\ runs <= 1
    /\ \A t \in Threads :
           thr[t].pc = "returned" => thr[t].got = Some(1) /\ cell.value = Some(1)

====
